---- MODULE Spec2Model ----
(***************************************************************************)
(* Model of go-nozzle's slow-consumer detection pipeline                   *)
(* (defaultSlowDetector), of the consumer that composes it with the        *)
(* rawConsumer, and of rawConsumer construction.                           *)
(*                                                                         *)
(* All channels of the pipeline are unbuffered (make(chan T)), so a send   *)
(* and the matching receive are one rendezvous step.  The raw source that  *)
(* feeds eventCh / errCh and the readers of eventCh_ / errCh_ / detectCh   *)
(* are the environment.  Whether a reader is receiving from a channel at   *)
(* all is fixed per run by the variable `drain`.                           *)
(***************************************************************************)
EXTENDS Naturals, Sequences, FiniteSets

(* ---------------------------------------------------------------- bounds *)
\* The raw source delivers at most MaxItems envelopes and errors in all.
MaxItems == 2

(* ------------------------------------------------------------- constants *)
\* websocket.ClosePolicyViolation
ClosePolicyViolation == 1008
\* websocket.CloseMessageTooBig, a close code that is no anomaly signature
CloseMessageTooBig == 1009

(* ------------------------------------------------------------ the values *)
\* The envelopes the raw source can deliver: the buffer-overflow signature,
\* three envelopes that differ from it in one field each (the origin, the
\* counter name, the event type) and a value metric.  `name` is what
\* envelope.CounterEvent.GetName() returns.
Envelopes ==
  { [eventType |-> "CounterEvent", name |-> "TruncatingBuffer.DroppedMessages", origin |-> "doppler"],
    [eventType |-> "CounterEvent", name |-> "TruncatingBuffer.DroppedMessages", origin |-> "router"],
    [eventType |-> "CounterEvent", name |-> "sentMessageCount",                 origin |-> "doppler"],
    [eventType |-> "ValueMetric",  name |-> "TruncatingBuffer.DroppedMessages", origin |-> "doppler"],
    [eventType |-> "ValueMetric",  name |-> "cpu",                              origin |-> "doppler"] }

\* The errors the raw source can deliver: two websocket close errors and an
\* error of another type.
RawErrors ==
  { [type |-> "CloseError", code |-> ClosePolicyViolation],
    [type |-> "CloseError", code |-> CloseMessageTooBig],
    [type |-> "error",      code |-> 0] }

\* ctx.Err() of a cancelled context (context.Canceled)
CtxErr == [type |-> "context.Canceled", code |-> 0]

\* The two alerts, named by the loop that sends them.
DopplerAlert == "doppler dropped messages from its queue because nozzle is slow"
WebsocketAlert == "websocket terminates the connection because connection is too slow (ClosePolicyViolation)"

\* Which readers never receive: a subset of these channel names.
OutputChannels == {"eventCh_", "errCh_", "detectCh"}

VARIABLES
  config,        \* the Config the last newRawConsumer was given
  newRet,        \* what newRawConsumer returned: [ok, c, err]
  connection,    \* rawConsumer.connection: "nil" | "open" | "closed"
  closeRet,      \* what the last consumer.Close returned ("none" before any)
  closeCalls,    \* the calls the last consumer.Close made, in order
  started,       \* how the pipeline was started: "no" | "Detect" | "DetectContext"
  cancelFunc,    \* sd.cancelFunc: "nil" | "set"
  ctxDone,       \* the context of the pipeline is cancelled
  stopRet,       \* what the last Stop returned ("none" before any)
  drain,         \* the output channels somebody receives from
  rawEvClosed,   \* the raw source closed eventCh
  rawErrClosed,  \* the raw source closed errCh
  detectChClosed,\* detectCh is closed
  pcEv,          \* event loop: "idle" | "recv" | "alert" | "select" | "cancelSend" | "done" | "panic"
  event,         \* the envelope the event loop holds (the loop variable)
  recvEv,        \* envelopes the event loop received from eventCh, in order
  outEv,         \* envelopes delivered on eventCh_, in order
  evOutClosed,   \* eventCh_ is closed
  evExit,        \* why the event loop returned: "no" | "eof" | "cancel"
  pcErr,         \* error loop: "idle" | "recv" | "alert" | "select" | "cancelSend" | "done"
  err,           \* the error the error loop holds (the loop variable)
  recvErr,       \* errors the error loop received from errCh, in order
  outErr,        \* errors delivered on errCh_, in order
  errOutClosed,  \* errCh_ is closed
  errExit,       \* why the error loop returned: "no" | "eof" | "cancel"
  detectCh,      \* alerts delivered on detectCh, counted by message
  panicked       \* a goroutine panicked: the process is gone

sessionVars == <<config, newRet, connection, closeRet, closeCalls>>
detectorVars == <<started, cancelFunc, ctxDone, stopRet>>
envVars == <<drain, rawEvClosed, rawErrClosed, detectChClosed>>
evVars == <<pcEv, event, recvEv, outEv, evOutClosed, evExit>>
errVars == <<pcErr, err, recvErr, outErr, errOutClosed, errExit>>
vars == <<sessionVars, detectorVars, envVars, evVars, errVars, detectCh, panicked>>

(* ---------------------------------------------------------- pure helpers *)
\* isTruncated without the test of the counter name.
isTruncated_AnyName(envelope) ==
  /\ envelope.eventType = "CounterEvent"
  /\ envelope.origin = "doppler"

\* isTruncated: all three fields match the buffer-overflow signature.
isTruncated(envelope) ==
  /\ envelope.eventType = "CounterEvent"
  /\ envelope.name = "TruncatingBuffer.DroppedMessages"
  /\ envelope.origin = "doppler"

\* The type switch of the error loop: a *websocket.CloseError with code 1008.
isPolicyViolation(e) ==
  /\ e.type = "CloseError"
  /\ e.code = ClosePolicyViolation

\* validate with the token checked before the address.
validate_TokenFirst(c) ==
  IF c.token = "" THEN "Token must not be empty"
  ELSE IF c.dopplerAddr = "" THEN "DopplerAddr must not be empty"
  ELSE IF c.subscriptionID = "" THEN "SubscriptionID must not be empty"
  ELSE "nil"

\* rawConsumer.validate: the first empty field, in the order of the checks.
validate(c) ==
  IF c.dopplerAddr = "" THEN "DopplerAddr must not be empty"
  ELSE IF c.token = "" THEN "Token must not be empty"
  ELSE IF c.subscriptionID = "" THEN "SubscriptionID must not be empty"
  ELSE "nil"

\* The zero rawConsumer, standing for the nil handle.
NilConsumer == [dopplerAddr |-> "", token |-> "", subscriptionID |-> ""]

\* The values a configuration field is drawn from, and the configurations.
FieldValues == {"", "set"}
Configs == [DopplerAddr : FieldValues, Token : FieldValues, SubscriptionID : FieldValues]

Alive == ~panicked

(* ------------------------------------------------------------------ Init *)
\* The detector, the loops and the environment before the pipeline starts.
InitPipeline ==
  /\ started = "no"
  /\ cancelFunc = "nil"
  /\ ctxDone = FALSE
  /\ stopRet = "none"
  /\ drain \in SUBSET OutputChannels
  /\ rawEvClosed = FALSE
  /\ rawErrClosed = FALSE
  /\ detectChClosed = FALSE
  /\ pcEv = "idle"
  /\ event = CHOOSE e \in Envelopes : e.name = "cpu"
  /\ recvEv = <<>>
  /\ outEv = <<>>
  /\ evOutClosed = FALSE
  /\ evExit = "no"
  /\ pcErr = "idle"
  /\ err = CtxErr
  /\ recvErr = <<>>
  /\ outErr = <<>>
  /\ errOutClosed = FALSE
  /\ errExit = "no"
  /\ detectCh = [m \in {DopplerAlert, WebsocketAlert} |-> 0]
  /\ panicked = FALSE

Init ==
  /\ config = [DopplerAddr |-> "", Token |-> "", SubscriptionID |-> ""]
  /\ newRet = [ok |-> FALSE, c |-> NilConsumer, err |-> "none"]
  /\ connection = "nil"
  /\ closeRet = "none"
  /\ closeCalls = <<>>
  /\ InitPipeline

(* ------------------------------------------- construction of the source *)
\* newRawConsumer(config): builds the rawConsumer from the three fields and
\* validates it; on a validation error the handle returned is nil.
NewRawConsumer(cfg) ==
  /\ Alive
  /\ ~newRet.ok
  /\ config' = cfg
  /\ LET c == [dopplerAddr |-> cfg.DopplerAddr, token |-> cfg.Token,
               subscriptionID |-> cfg.SubscriptionID]
         e == validate(c)
     IN newRet' = IF e # "nil"
                  THEN [ok |-> FALSE, c |-> NilConsumer, err |-> e]
                  ELSE [ok |-> TRUE, c |-> c, err |-> "nil"]
  /\ UNCHANGED <<connection, closeRet, closeCalls, detectorVars, envVars, evVars, errVars, detectCh, panicked>>

\* rawConsumer.Consume: creates the raw channels, starts the firehose and
\* stores the connection.
Consume ==
  /\ Alive
  /\ newRet.ok
  /\ connection = "nil"
  /\ connection' = "open"
  /\ UNCHANGED <<config, newRet, closeRet, closeCalls, detectorVars, envVars, evVars, errVars, detectCh, panicked>>

(* ----------------------------------------------------------- the detector *)
\* DetectContext(ctx, eventCh, errCh): panics on a nil context, otherwise
\* creates eventCh_, errCh_ and detectCh and starts the two goroutines.
\* The channels it is given are the ones Consume returned.
DetectContextBody(ctx) ==
  IF ctx = "nil"
  THEN /\ panicked' = TRUE
       /\ UNCHANGED <<pcEv, pcErr>>
  ELSE /\ pcEv' = "recv"
       /\ pcErr' = "recv"
       /\ UNCHANGED panicked

\* DetectContext keeping a cancel function for the context it is given.
DetectContext_StoresCancel(ctx) ==
  /\ Alive
  /\ connection # "nil"
  /\ started = "no"
  /\ started' = "DetectContext"
  /\ cancelFunc' = "set"
  /\ DetectContextBody(ctx)
  /\ UNCHANGED <<ctxDone, stopRet>>
  /\ UNCHANGED <<sessionVars, envVars, detectCh>>
  /\ UNCHANGED <<event, recvEv, outEv, evOutClosed, evExit>>
  /\ UNCHANGED <<err, recvErr, outErr, errOutClosed, errExit>>

DetectContext(ctx) ==
  /\ Alive
  /\ connection # "nil"
  /\ started = "no"
  /\ started' = "DetectContext"
  /\ DetectContextBody(ctx)
  /\ UNCHANGED <<cancelFunc, ctxDone, stopRet>>
  /\ UNCHANGED <<sessionVars, envVars, detectCh>>
  /\ UNCHANGED <<event, recvEv, outEv, evOutClosed, evExit>>
  /\ UNCHANGED <<err, recvErr, outErr, errOutClosed, errExit>>

\* Detect(eventCh, errCh): a context of its own, its cancel function stored.
Detect ==
  /\ Alive
  /\ connection # "nil"
  /\ started = "no"
  /\ started' = "Detect"
  /\ cancelFunc' = "set"
  /\ DetectContextBody("ctx")
  /\ UNCHANGED <<ctxDone, stopRet>>
  /\ UNCHANGED <<sessionVars, envVars, detectCh>>
  /\ UNCHANGED <<event, recvEv, outEv, evOutClosed, evExit>>
  /\ UNCHANGED <<err, recvErr, outErr, errOutClosed, errExit>>

\* The caller of DetectContext cancels the context it passed.
CancelParent ==
  /\ Alive
  /\ started = "DetectContext"
  /\ ~ctxDone
  /\ ctxDone' = TRUE
  /\ UNCHANGED <<started, cancelFunc, stopRet>>
  /\ UNCHANGED <<sessionVars, envVars, evVars, errVars, detectCh, panicked>>

\* Stop reporting success without a cancel function.
StopResult_AlwaysNil == "nil"

\* What Stop returns.
StopResult ==
  IF cancelFunc = "nil" THEN "cancel function is not given" ELSE "nil"

\* Stop: an error without a cancel function, otherwise sd.cancelFunc().
StopBody ==
  /\ stopRet' = StopResult
  /\ ctxDone' = (ctxDone \/ cancelFunc # "nil")
  /\ UNCHANGED <<started, cancelFunc>>

Stop ==
  /\ Alive
  /\ StopBody
  /\ UNCHANGED <<sessionVars, envVars, evVars, errVars, detectCh, panicked>>

(* ----------------------------------------------------------- the session *)
\* What connection.Close() of the noaa consumer can return.
ConnCloseResults == {"nil", "connection close error"}

\* rawConsumer.Close with connection.Close() returning r.
RawCloseResult(r) ==
  IF connection = "nil" THEN "no connection with firehose" ELSE r

\* Close going on to Stop whatever rawConsumer.Close returned.
Close_StopAnyway(r) ==
  /\ Alive
  /\ newRet.ok
  /\ connection' = IF RawCloseResult(r) = "nil" THEN "closed" ELSE connection
  /\ StopBody
  /\ closeRet' = IF RawCloseResult(r) # "nil" THEN RawCloseResult(r) ELSE StopResult
  /\ closeCalls' = <<"rawConsumer.Close", "slowDetector.Stop">>
  /\ UNCHANGED <<config, newRet, envVars, evVars, errVars, detectCh, panicked>>

\* consumer.Close: rawConsumer.Close first and, when that returned nil,
\* slowDetector.Stop, whose result it returns.
Close(r) ==
  /\ Alive
  /\ newRet.ok
  /\ IF RawCloseResult(r) # "nil"
     THEN /\ closeRet' = RawCloseResult(r)
          /\ closeCalls' = <<"rawConsumer.Close">>
          /\ UNCHANGED <<connection, detectorVars>>
     ELSE /\ connection' = "closed"
          /\ StopBody
          /\ closeRet' = StopResult
          /\ closeCalls' = <<"rawConsumer.Close", "slowDetector.Stop">>
  /\ UNCHANGED <<config, newRet, envVars, evVars, errVars, detectCh, panicked>>

(* ------------------------------------------------------- the raw source *)
\* The event loop going to its select without the isTruncated check.
EvRecv_NoCheck(e) ==
  /\ Alive
  /\ pcEv = "recv"
  /\ ~rawEvClosed
  /\ Len(recvEv) + Len(recvErr) < MaxItems
  /\ event' = e
  /\ recvEv' = Append(recvEv, e)
  /\ pcEv' = "select"
  /\ UNCHANGED <<outEv, evOutClosed, evExit>>
  /\ UNCHANGED <<sessionVars, detectorVars, envVars, errVars, detectCh, panicked>>

\* The raw source sends envelope e on eventCh; the event loop, waiting in
\* `range eventCh`, receives it and runs the isTruncated check.
EvRecv(e) ==
  /\ Alive
  /\ pcEv = "recv"
  /\ ~rawEvClosed
  /\ Len(recvEv) + Len(recvErr) < MaxItems
  /\ event' = e
  /\ recvEv' = Append(recvEv, e)
  /\ pcEv' = IF isTruncated(e) THEN "alert" ELSE "select"
  /\ UNCHANGED <<outEv, evOutClosed, evExit>>
  /\ UNCHANGED <<sessionVars, detectorVars, envVars, errVars, detectCh, panicked>>

\* The close-error check alerting on every close error, whatever its code.
ErrRecv_AnyClose(e) ==
  /\ Alive
  /\ pcErr = "recv"
  /\ ~rawErrClosed
  /\ Len(recvEv) + Len(recvErr) < MaxItems
  /\ err' = e
  /\ recvErr' = Append(recvErr, e)
  /\ pcErr' = IF e.type = "CloseError" THEN "alert" ELSE "select"
  /\ UNCHANGED <<outErr, errOutClosed, errExit>>
  /\ UNCHANGED <<sessionVars, detectorVars, envVars, evVars, detectCh, panicked>>

\* The raw source sends error e on errCh; the error loop receives it and
\* runs the close-error check.
ErrRecv(e) ==
  /\ Alive
  /\ pcErr = "recv"
  /\ ~rawErrClosed
  /\ Len(recvEv) + Len(recvErr) < MaxItems
  /\ err' = e
  /\ recvErr' = Append(recvErr, e)
  /\ pcErr' = IF isPolicyViolation(e) THEN "alert" ELSE "select"
  /\ UNCHANGED <<outErr, errOutClosed, errExit>>
  /\ UNCHANGED <<sessionVars, detectorVars, envVars, evVars, detectCh, panicked>>

\* The raw source closes eventCh.
CloseRawEvents ==
  /\ Alive
  /\ connection # "nil"
  /\ ~rawEvClosed
  /\ rawEvClosed' = TRUE
  /\ UNCHANGED <<drain, rawErrClosed, detectChClosed>>
  /\ UNCHANGED <<sessionVars, detectorVars, evVars, errVars, detectCh, panicked>>

\* The raw source closes errCh.
CloseRawErrors ==
  /\ Alive
  /\ connection # "nil"
  /\ ~rawErrClosed
  /\ rawErrClosed' = TRUE
  /\ UNCHANGED <<drain, rawEvClosed, detectChClosed>>
  /\ UNCHANGED <<sessionVars, detectorVars, evVars, errVars, detectCh, panicked>>

(* -------------------------------------------------------- the event loop *)
\* The alert sent without waiting for a reader (a send that cannot block).
EvAlert_NoReader ==
  /\ Alive
  /\ pcEv = "alert"
  /\ detectCh' = [detectCh EXCEPT ![DopplerAlert] = @ + (IF "detectCh" \in drain THEN 1 ELSE 0)]
  /\ pcEv' = "select"
  /\ UNCHANGED <<event, recvEv, outEv, evOutClosed, evExit>>
  /\ UNCHANGED <<sessionVars, detectorVars, envVars, errVars, panicked>>

\* detectCh <- fmt.Errorf("doppler dropped messages ..."): completes when a
\* reader receives from detectCh; nothing else is waited for.
EvAlert ==
  /\ Alive
  /\ pcEv = "alert"
  /\ "detectCh" \in drain
  /\ detectCh' = [detectCh EXCEPT ![DopplerAlert] = @ + 1]
  /\ pcEv' = "select"
  /\ UNCHANGED <<event, recvEv, outEv, evOutClosed, evExit>>
  /\ UNCHANGED <<sessionVars, detectorVars, envVars, errVars, panicked>>

\* The send delivering the envelope twice.
EvSelectSend_Twice ==
  /\ Alive
  /\ pcEv = "select"
  /\ "eventCh_" \in drain
  /\ outEv' = outEv \o <<event, event>>
  /\ pcEv' = "recv"
  /\ UNCHANGED <<event, recvEv, evOutClosed, evExit>>
  /\ UNCHANGED <<sessionVars, detectorVars, envVars, errVars, detectCh, panicked>>

\* select, case eventCh_ <- event: a reader takes the envelope and the loop
\* goes back to `range eventCh`.
EvSelectSend ==
  /\ Alive
  /\ pcEv = "select"
  /\ "eventCh_" \in drain
  /\ outEv' = Append(outEv, event)
  /\ pcEv' = "recv"
  /\ UNCHANGED <<event, recvEv, evOutClosed, evExit>>
  /\ UNCHANGED <<sessionVars, detectorVars, envVars, errVars, detectCh, panicked>>

\* The cancellation also observed while the alert is being sent.
EvSelectDone_FromAlert ==
  /\ Alive
  /\ pcEv \in {"alert", "select"}
  /\ ctxDone
  /\ pcEv' = "cancelSend"
  /\ UNCHANGED <<event, recvEv, outEv, evOutClosed, evExit>>
  /\ UNCHANGED <<sessionVars, detectorVars, envVars, errVars, detectCh, panicked>>

\* The loop leaving its select although the context is not cancelled.
EvSelectDone_Uncancelled ==
  /\ Alive
  /\ pcEv = "select"
  /\ pcEv' = "cancelSend"
  /\ UNCHANGED <<event, recvEv, outEv, evOutClosed, evExit>>
  /\ UNCHANGED <<sessionVars, detectorVars, envVars, errVars, detectCh, panicked>>

\* select, case <-ctx.Done(): the loop goes on to send ctx.Err() on errCh_.
EvSelectDone ==
  /\ Alive
  /\ pcEv = "select"
  /\ ctxDone
  /\ pcEv' = "cancelSend"
  /\ UNCHANGED <<event, recvEv, outEv, evOutClosed, evExit>>
  /\ UNCHANGED <<sessionVars, detectorVars, envVars, errVars, detectCh, panicked>>

\* The cancellation error sent without waiting for a reader of errCh_.
EvCancelSend_NoReader ==
  /\ Alive
  /\ pcEv = "cancelSend"
  /\ ~errOutClosed
  /\ outErr' = IF "errCh_" \in drain THEN Append(outErr, CtxErr) ELSE outErr
  /\ evOutClosed' = TRUE
  /\ evExit' = "cancel"
  /\ pcEv' = "done"
  /\ UNCHANGED <<event, recvEv, outEv>>
  /\ UNCHANGED <<pcErr, err, recvErr, errOutClosed, errExit>>
  /\ UNCHANGED <<sessionVars, detectorVars, envVars, detectCh, panicked>>

\* The cancellation branch flushing the envelope it holds before it returns.
EvCancelSend_Flush ==
  /\ Alive
  /\ pcEv = "cancelSend"
  /\ ~errOutClosed
  /\ "errCh_" \in drain
  /\ outErr' = Append(outErr, CtxErr)
  /\ outEv' = Append(outEv, event)
  /\ evOutClosed' = TRUE
  /\ evExit' = "cancel"
  /\ pcEv' = "done"
  /\ UNCHANGED <<event, recvEv>>
  /\ UNCHANGED <<pcErr, err, recvErr, errOutClosed, errExit>>
  /\ UNCHANGED <<sessionVars, detectorVars, envVars, detectCh, panicked>>

\* errCh_ <- ctx.Err() on the open errCh_, then return: the deferred
\* close(eventCh_) runs.
EvCancelSend ==
  /\ Alive
  /\ pcEv = "cancelSend"
  /\ ~errOutClosed
  /\ "errCh_" \in drain
  /\ outErr' = Append(outErr, CtxErr)
  /\ evOutClosed' = TRUE
  /\ evExit' = "cancel"
  /\ pcEv' = "done"
  /\ UNCHANGED <<event, recvEv, outEv>>
  /\ UNCHANGED <<pcErr, err, recvErr, errOutClosed, errExit>>
  /\ UNCHANGED <<sessionVars, detectorVars, envVars, detectCh, panicked>>

\* errCh_ <- ctx.Err() when the error loop has closed errCh_: a send on a
\* closed channel panics (the deferred close runs as the goroutine unwinds).
EvCancelPanic ==
  /\ Alive
  /\ pcEv = "cancelSend"
  /\ errOutClosed
  /\ panicked' = TRUE
  /\ evOutClosed' = TRUE
  /\ pcEv' = "panic"
  /\ UNCHANGED <<event, recvEv, outEv, evExit>>
  /\ UNCHANGED <<sessionVars, detectorVars, envVars, errVars, detectCh>>

\* The loop returning as soon as eventCh is closed, the envelope it is
\* offering undelivered.
EvRangeEnd_DropHeld ==
  /\ Alive
  /\ pcEv \in {"recv", "select"}
  /\ rawEvClosed
  /\ evOutClosed' = TRUE
  /\ evExit' = "eof"
  /\ pcEv' = "done"
  /\ UNCHANGED <<event, recvEv, outEv>>
  /\ UNCHANGED <<sessionVars, detectorVars, envVars, errVars, detectCh, panicked>>

\* `range eventCh` ends because eventCh is closed: the deferred
\* close(eventCh_) runs.
EvRangeEnd ==
  /\ Alive
  /\ pcEv = "recv"
  /\ rawEvClosed
  /\ evOutClosed' = TRUE
  /\ evExit' = "eof"
  /\ pcEv' = "done"
  /\ UNCHANGED <<event, recvEv, outEv>>
  /\ UNCHANGED <<sessionVars, detectorVars, envVars, errVars, detectCh, panicked>>

(* -------------------------------------------------------- the error loop *)
\* detectCh <- fmt.Errorf("websocket terminates the connection ...").
ErrAlert ==
  /\ Alive
  /\ pcErr = "alert"
  /\ "detectCh" \in drain
  /\ detectCh' = [detectCh EXCEPT ![WebsocketAlert] = @ + 1]
  /\ pcErr' = "select"
  /\ UNCHANGED <<err, recvErr, outErr, errOutClosed, errExit>>
  /\ UNCHANGED <<sessionVars, detectorVars, envVars, evVars, panicked>>

\* The error put in front of what was delivered before.
ErrSelectSend_Reorder ==
  /\ Alive
  /\ pcErr = "select"
  /\ "errCh_" \in drain
  /\ outErr' = <<err>> \o outErr
  /\ pcErr' = "recv"
  /\ UNCHANGED <<err, recvErr, errOutClosed, errExit>>
  /\ UNCHANGED <<sessionVars, detectorVars, envVars, evVars, detectCh, panicked>>

\* The error relayed only while the event loop is not waiting in its select
\* (one loop serving both streams).
ErrSelectSend_Coupled ==
  /\ Alive
  /\ pcErr = "select"
  /\ pcEv # "select"
  /\ "errCh_" \in drain
  /\ outErr' = Append(outErr, err)
  /\ pcErr' = "recv"
  /\ UNCHANGED <<err, recvErr, errOutClosed, errExit>>
  /\ UNCHANGED <<sessionVars, detectorVars, envVars, evVars, detectCh, panicked>>

\* select, case errCh_ <- err.
ErrSelectSend ==
  /\ Alive
  /\ pcErr = "select"
  /\ "errCh_" \in drain
  /\ outErr' = Append(outErr, err)
  /\ pcErr' = "recv"
  /\ UNCHANGED <<err, recvErr, errOutClosed, errExit>>
  /\ UNCHANGED <<sessionVars, detectorVars, envVars, evVars, detectCh, panicked>>

\* select, case <-ctx.Done().
ErrSelectDone ==
  /\ Alive
  /\ pcErr = "select"
  /\ ctxDone
  /\ pcErr' = "cancelSend"
  /\ UNCHANGED <<err, recvErr, outErr, errOutClosed, errExit>>
  /\ UNCHANGED <<sessionVars, detectorVars, envVars, evVars, detectCh, panicked>>

\* errCh_ <- ctx.Err(), then return: the deferred close(errCh_) runs.
ErrCancelSend ==
  /\ Alive
  /\ pcErr = "cancelSend"
  /\ "errCh_" \in drain
  /\ outErr' = Append(outErr, CtxErr)
  /\ errOutClosed' = TRUE
  /\ errExit' = "cancel"
  /\ pcErr' = "done"
  /\ UNCHANGED <<err, recvErr>>
  /\ UNCHANGED <<sessionVars, detectorVars, envVars, evVars, detectCh, panicked>>

\* The error loop closing detectCh as well when it returns.
ErrRangeEnd_ClosesAlerts ==
  /\ Alive
  /\ pcErr = "recv"
  /\ rawErrClosed
  /\ errOutClosed' = TRUE
  /\ detectChClosed' = TRUE
  /\ errExit' = "eof"
  /\ pcErr' = "done"
  /\ UNCHANGED <<err, recvErr, outErr>>
  /\ UNCHANGED <<drain, rawEvClosed, rawErrClosed>>
  /\ UNCHANGED <<sessionVars, detectorVars, evVars, detectCh, panicked>>

\* `range errCh` ends because errCh is closed: the deferred close(errCh_) runs.
ErrRangeEnd ==
  /\ Alive
  /\ pcErr = "recv"
  /\ rawErrClosed
  /\ errOutClosed' = TRUE
  /\ errExit' = "eof"
  /\ pcErr' = "done"
  /\ UNCHANGED <<err, recvErr, outErr>>
  /\ UNCHANGED <<sessionVars, detectorVars, envVars, evVars, detectCh, panicked>>

(* ------------------------------------------------------ the specification *)
\* The steps of the event goroutine and of the error goroutine.
EvLoop == EvAlert \/ EvSelectSend \/ EvSelectDone \/ EvCancelSend \/ EvCancelPanic \/ EvRangeEnd
ErrLoop == ErrAlert \/ ErrSelectSend \/ ErrSelectDone \/ ErrCancelSend \/ ErrRangeEnd

Next ==
  \/ \E cfg \in Configs : NewRawConsumer(cfg)
  \/ Consume
  \/ \E ctx \in {"nil", "ctx"} : DetectContext(ctx)
  \/ Detect
  \/ CancelParent
  \/ Stop
  \/ \E r \in ConnCloseResults : Close(r)
  \/ \E e \in Envelopes : EvRecv(e)
  \/ \E e \in RawErrors : ErrRecv(e)
  \/ CloseRawEvents
  \/ CloseRawErrors
  \/ EvLoop
  \/ ErrLoop

Spec == Init /\ [][Next]_vars

\* The pipeline alone, from the state in which the rawConsumer is built and
\* Consume has returned the raw channels: the detector is started, stopped
\* and fed, the session is not closed.
PipelineInit ==
  /\ config = [DopplerAddr |-> "set", Token |-> "set", SubscriptionID |-> "set"]
  /\ newRet = [ok |-> TRUE,
               c |-> [dopplerAddr |-> "set", token |-> "set", subscriptionID |-> "set"],
               err |-> "nil"]
  /\ connection = "open"
  /\ closeRet = "none"
  /\ closeCalls = <<>>
  /\ InitPipeline

PipelineNext ==
  \/ \E ctx \in {"nil", "ctx"} : DetectContext(ctx)
  \/ Detect
  \/ CancelParent
  \/ Stop
  \/ \E e \in Envelopes : EvRecv(e)
  \/ \E e \in RawErrors : ErrRecv(e)
  \/ CloseRawEvents
  \/ CloseRawErrors
  \/ EvLoop
  \/ ErrLoop

\* The scheduler runs a goroutine that can take a step, and a reader that
\* receives from a channel (drain) takes what is offered to it.  The raw
\* source and the callers of Stop and cancel are under no obligation.
Fairness ==
  /\ WF_vars(EvAlert)
  /\ WF_vars(EvSelectSend \/ EvSelectDone)
  /\ WF_vars(EvCancelSend)
  /\ WF_vars(EvCancelPanic)
  /\ WF_vars(EvRangeEnd)
  /\ WF_vars(ErrAlert)
  /\ WF_vars(ErrSelectSend \/ ErrSelectDone)
  /\ WF_vars(ErrCancelSend)
  /\ WF_vars(ErrRangeEnd)

FairSpec == PipelineInit /\ [][PipelineNext]_vars /\ Fairness

(* ================================================================ claims *)
(* ---- C9 *)
\* The field a validation error names.
FieldError(f) ==
  CASE f = "DopplerAddr" -> "DopplerAddr must not be empty"
    [] f = "Token" -> "Token must not be empty"
    [] f = "SubscriptionID" -> "SubscriptionID must not be empty"

FieldOrder == <<"DopplerAddr", "Token", "SubscriptionID">>

\* C9: once newRawConsumer has been called, it returned a handle exactly when
\* the address, the token and the subscription ID of its configuration are all
\* non-empty; otherwise it returned no handle and the error that names the
\* first empty field in the order address, token, subscription ID.
C9_Validation ==
  newRet.err # "none" =>
    LET empty == {i \in 1..3 : config[FieldOrder[i]] = ""}
    IN IF empty = {}
       THEN /\ newRet.ok
            /\ newRet.err = "nil"
            /\ newRet.c = [dopplerAddr |-> config.DopplerAddr, token |-> config.Token,
                           subscriptionID |-> config.SubscriptionID]
       ELSE /\ ~newRet.ok
            /\ newRet.c = NilConsumer
            /\ \E i \in empty :
                 /\ \A j \in empty : i <= j
                 /\ newRet.err = FieldError(FieldOrder[i])

\* Construction was refused for a configuration whose address is set and
\* whose token and subscription ID are both empty.
C9_Witness ==
  /\ newRet.err = "Token must not be empty"
  /\ config.DopplerAddr # ""
  /\ config.SubscriptionID = ""

(* ---- C8 *)
\* C8: every consumer.Close calls rawConsumer.Close first; when that returns
\* an error, Close returns the same error, Stop is not called and the context
\* is left as it was; when it returns nil, Stop is called and Close returns
\* what Stop returned.
C8_CloseOrder ==
  [][\A r \in ConnCloseResults :
       Close(r) =>
         /\ closeCalls'[1] = "rawConsumer.Close"
         /\ IF RawCloseResult(r) # "nil"
            THEN /\ closeRet' = RawCloseResult(r)
                 /\ closeCalls' = <<"rawConsumer.Close">>
                 /\ UNCHANGED <<ctxDone, stopRet, cancelFunc>>
            ELSE /\ closeCalls' = <<"rawConsumer.Close", "slowDetector.Stop">>
                 /\ closeRet' = stopRet'
                 /\ stopRet' = StopResult
                 /\ ctxDone' = (ctxDone \/ cancelFunc # "nil")]_vars

\* A Close whose raw close failed while the pipeline was running: it returned
\* that error and the context is not cancelled.
C8_Witness ==
  /\ closeRet = "connection close error"
  /\ closeCalls = <<"rawConsumer.Close">>
  /\ started = "Detect"
  /\ ~ctxDone

(* ---- C3 *)
\* C3 as stated: Stop returns an error before the pipeline is started, and
\* after a start (by Detect or by DetectContext) every Stop returns success.
C3_Original ==
  [][Stop => (stopRet' = "nil" <=> started # "no")]_vars

\* C3, amended: Stop returns an error while no cancel function is stored, that
\* is before any start and after a start by DetectContext alone; after a start
\* by Detect every Stop returns success, the first one cancels the context and
\* a later one changes nothing.
C3_Stop ==
  [][Stop =>
       IF started = "Detect"
       THEN /\ stopRet' = "nil"
            /\ ctxDone'
            /\ ctxDone => UNCHANGED vars
       ELSE /\ stopRet' = "cancel function is not given"
            /\ UNCHANGED ctxDone]_vars

\* Stop has returned success on a pipeline started by Detect, whose context
\* is cancelled.
C3_Witness ==
  /\ started = "Detect"
  /\ stopRet = "nil"
  /\ ctxDone
  /\ closeCalls = <<>>

(* ---- C5 *)
\* Stopped: both goroutines have returned and both output channels are closed.
Stopped ==
  /\ pcEv = "done"
  /\ pcErr = "done"
  /\ evOutClosed
  /\ errOutClosed

\* C5 as stated: the pipeline is never Stopped without being Cancelled, and
\* once Stopped it stays Stopped.
C5_Original ==
  [][(Stopped' => ctxDone') /\ (Stopped => Stopped')]_vars

\* C5, amended: cancellation is one-way; the pipeline is Stopped only after it
\* was cancelled or, never cancelled, after the raw source closed both of its
\* channels (each loop that returned did so on cancellation or at the end of
\* its raw stream); once Stopped it stays Stopped.
C5_Lifecycle ==
  [][/\ ctxDone => ctxDone'
     /\ Stopped => Stopped'
     /\ Stopped' => /\ ctxDone' \/ (rawEvClosed' /\ rawErrClosed')
                    /\ evExit' = "cancel" => ctxDone'
                    /\ errExit' = "cancel" => ctxDone'
                    /\ evExit' = "eof" => rawEvClosed'
                    /\ errExit' = "eof" => rawErrClosed']_vars

\* The pipeline is Stopped and was never cancelled: both loops relayed an
\* item and then saw their raw channel closed.
C5_Witness ==
  /\ Stopped
  /\ ~ctxDone
  /\ Len(outEv) = 1
  /\ Len(outErr) = 1

(* ---- C10 *)
\* The errors of outErr that came from the raw source.
RawPart(errs) == SelectSeq(errs, LAMBDA x : x # CtxErr)

\* All but the last element.
Front(q) == SubSeq(q, 1, Len(q) - 1)

\* C10 as stated: once the context is cancelled nothing is delivered on the
\* outputs any more except cancellation errors.
C10_Original ==
  [][ctxDone =>
       /\ outEv' = outEv
       /\ outErr' = outErr \/ outErr' = Append(outErr, CtxErr)]_vars

\* A loop has taken the cancellation branch of its select.
EvCancelled == pcEv \in {"cancelSend", "panic"} \/ evExit = "cancel"
ErrCancelled == pcErr = "cancelSend" \/ errExit = "cancel"

\* C10, amended: once a loop has taken the cancellation branch of its select,
\* the item it holds is never delivered and the loop delivers nothing but its
\* one cancellation error; every cancellation error on the output comes from
\* a loop that returned on cancellation.  (An item not yet relayed when the
\* context is cancelled can still be delivered while its loop has not taken
\* that branch.)
C10_DroppedOnCancel ==
  /\ [](EvCancelled => recvEv = Append(outEv, event))
  /\ [](ErrCancelled => recvErr = Append(RawPart(outErr), err))
  /\ [](Len(outErr) - Len(RawPart(outErr))
          = (IF evExit = "cancel" THEN 1 ELSE 0) + (IF errExit = "cancel" THEN 1 ELSE 0))
  /\ [][/\ EvCancelled => EvCancelled' /\ outEv' = outEv
        /\ ErrCancelled => ErrCancelled' /\ RawPart(outErr') = RawPart(outErr)]_vars

\* The event loop relayed one envelope and returned on cancellation with the
\* second one undelivered.
C10_Witness ==
  /\ evExit = "cancel"
  /\ Len(recvEv) = 2
  /\ outEv = Front(recvEv)
  /\ outErr = <<CtxErr>>

(* ---- C1 *)
\* No envelope / error received so far matches an anomaly signature.
NoMatchEv == \A i \in 1..Len(recvEv) : ~isTruncated(recvEv[i])
NoMatchErr == \A i \in 1..Len(recvErr) : ~isPolicyViolation(recvErr[i])

\* C1: while the context is not cancelled and no received item matches an
\* anomaly signature, the output event stream is exactly the sequence of
\* envelopes received, less the one the loop is holding in its select, and the
\* same holds of the errors; and with the output channel drained every item
\* received is eventually delivered (unless the context is cancelled first).
C1_Relay ==
  /\ [](~ctxDone /\ NoMatchEv =>
          outEv = IF pcEv = "select" THEN Front(recvEv) ELSE recvEv)
  /\ [](~ctxDone /\ NoMatchErr =>
          outErr = IF pcErr = "select" THEN Front(recvErr) ELSE recvErr)
  /\ \A n \in 1..MaxItems :
       (Len(recvEv) = n /\ NoMatchEv /\ "eventCh_" \in drain)
         ~> (ctxDone \/ (Len(outEv) >= n /\ SubSeq(outEv, 1, n) = SubSeq(recvEv, 1, n)))
  /\ \A n \in 1..MaxItems :
       (Len(recvErr) = n /\ NoMatchErr /\ "errCh_" \in drain)
         ~> (ctxDone \/ (Len(outErr) >= n /\ SubSeq(outErr, 1, n) = SubSeq(recvErr, 1, n)))

\* Two different envelopes, neither an anomaly, were received and delivered
\* in that order.
C1_Witness ==
  /\ ~ctxDone
  /\ NoMatchEv
  /\ Len(recvEv) = 2
  /\ recvEv[1] # recvEv[2]
  /\ outEv = recvEv

(* ---- C2 *)
\* The number of elements of q that satisfy the test.
CountEv(q) == Len(SelectSeq(q, isTruncated))
CountErr(q) == Len(SelectSeq(q, isPolicyViolation))

\* C2: while the context is not cancelled, the alerts received from the event
\* loop are one for each matching envelope received (less the alert the loop
\* is still trying to send) and likewise for the 1008 close errors of the
\* error loop, and no matching item is lost; with the alert channel and the
\* output channel drained, a matching item's alert is received and the item is
\* delivered (unless the context is cancelled first).
C2_AlertAndForward ==
  /\ [](~ctxDone =>
          /\ detectCh[DopplerAlert] = CountEv(recvEv) - (IF pcEv = "alert" THEN 1 ELSE 0)
          /\ outEv = IF pcEv \in {"alert", "select"} THEN Front(recvEv) ELSE recvEv)
  /\ [](~ctxDone =>
          /\ detectCh[WebsocketAlert] = CountErr(recvErr) - (IF pcErr = "alert" THEN 1 ELSE 0)
          /\ outErr = IF pcErr \in {"alert", "select"} THEN Front(recvErr) ELSE recvErr)
  /\ \A n \in 1..MaxItems :
       (Len(recvEv) = n /\ isTruncated(event) /\ {"detectCh", "eventCh_"} \subseteq drain)
         ~> (ctxDone \/ (/\ Len(outEv) >= n
                         /\ outEv[n] = recvEv[n]
                         /\ detectCh[DopplerAlert] >= CountEv(SubSeq(recvEv, 1, n))))
  /\ \A n \in 1..MaxItems :
       (Len(recvErr) = n /\ isPolicyViolation(err) /\ {"detectCh", "errCh_"} \subseteq drain)
         ~> (ctxDone \/ (/\ Len(outErr) >= n
                         /\ outErr[n] = recvErr[n]
                         /\ detectCh[WebsocketAlert] >= CountErr(SubSeq(recvErr, 1, n))))

\* A matching envelope and a 1008 close error were each alerted once and
\* delivered.
C2_Witness ==
  /\ ~ctxDone
  /\ Len(outEv) = 1 /\ isTruncated(outEv[1])
  /\ Len(outErr) = 1 /\ isPolicyViolation(outErr[1])
  /\ detectCh[DopplerAlert] = 1
  /\ detectCh[WebsocketAlert] = 1

(* ---- C7 *)
\* C7: when nobody receives from eventCh_ while errCh_ and detectCh are
\* drained, every error received from the raw source is still delivered
\* (unless the context is cancelled first), and the same with the two
\* streams exchanged.
C7_Decoupled ==
  /\ \A n \in 1..MaxItems :
       (Len(recvErr) = n /\ drain = {"errCh_", "detectCh"})
         ~> (ctxDone \/ (Len(outErr) >= n /\ outErr[n] = recvErr[n]))
  /\ \A n \in 1..MaxItems :
       (Len(recvEv) = n /\ drain = {"eventCh_", "detectCh"})
         ~> (ctxDone \/ (Len(outEv) >= n /\ outEv[n] = recvEv[n]))

\* The event loop is stuck offering an envelope nobody takes, and an error
\* received after that envelope has been delivered.
C7_Witness ==
  /\ "eventCh_" \notin drain
  /\ ~ctxDone
  /\ pcEv = "select"
  /\ Len(recvErr) = 1
  /\ outErr = recvErr

(* ---- C4 *)
\* C4: with all three channels drained, once the context of a started
\* pipeline is cancelled, a loop that has not returned yet eventually returns
\* with its output channel closed and its one cancellation error emitted, and
\* both output channels are eventually closed.
C4_Original ==
  /\ (drain = OutputChannels /\ ctxDone /\ pcEv \notin {"idle", "done"})
       ~> (evOutClosed /\ evExit = "cancel")
  /\ (drain = OutputChannels /\ ctxDone /\ pcErr \notin {"idle", "done"})
       ~> (errOutClosed /\ errExit = "cancel")
  /\ (drain = OutputChannels /\ ctxDone /\ started # "no")
       ~> (evOutClosed /\ errOutClosed)

(* ---- C6 *)
\* C6 as stated: a matching item is forwarded whenever its output channel has
\* a reader, whether or not anybody receives from the alert channel.
C6_Original ==
  /\ (pcEv = "alert" /\ "eventCh_" \in drain) ~> (ctxDone \/ outEv = recvEv)
  /\ (pcErr = "alert" /\ "errCh_" \in drain) ~> (ctxDone \/ RawPart(outErr) = recvErr)

\* C6, amended: the alert never drops the item that triggered it but it can
\* block it: while its alert is being sent the item is held, undelivered;
\* with nobody receiving from the alert channel the loop stays there and the
\* item is not forwarded; with the alert channel and the output channel
\* drained the item is delivered (unless the context is cancelled first).
C6_AlertBlocks ==
  /\ [](pcEv = "alert" => isTruncated(event) /\ recvEv = Append(outEv, event))
  /\ [](pcErr = "alert" => isPolicyViolation(err) /\ recvErr = Append(RawPart(outErr), err))
  /\ [][/\ pcEv = "alert" /\ "detectCh" \notin drain => pcEv' = "alert" /\ outEv' = outEv
        /\ pcErr = "alert" /\ "detectCh" \notin drain
             => pcErr' = "alert" /\ RawPart(outErr') = RawPart(outErr)]_vars
  /\ (pcEv = "alert" /\ {"detectCh", "eventCh_"} \subseteq drain) ~> (ctxDone \/ outEv = recvEv)
  /\ (pcErr = "alert" /\ {"detectCh", "errCh_"} \subseteq drain)
       ~> (ctxDone \/ RawPart(outErr) = recvErr)

\* Both loops hold a matching item and wait to send its alert; nobody
\* receives from detectCh while both output channels have readers.
C6_Witness ==
  /\ drain = {"eventCh_", "errCh_"}
  /\ pcEv = "alert"
  /\ pcErr = "alert"
  /\ outEv = <<>>
  /\ outErr = <<>>

(* ---- C11 *)
\* q is a prefix of r.
IsPrefix(q, r) == Len(q) <= Len(r) /\ q = SubSeq(r, 1, Len(q))

\* C11: in every state, cancelled or not, the envelopes delivered are a prefix
\* of the envelopes received, and the errors delivered, the cancellation
\* errors left out, are a prefix of the errors received.
C11_Prefix ==
  /\ IsPrefix(outEv, recvEv)
  /\ IsPrefix(RawPart(outErr), recvErr)

\* The error loop delivered its first error, then returned on cancellation
\* with the second, different one undelivered.
C11_Witness ==
  /\ ctxDone
  /\ errExit = "cancel"
  /\ Len(recvErr) = 2
  /\ recvErr[1] # recvErr[2]
  /\ outErr = <<recvErr[1], CtxErr>>

(* ---- C12 *)
\* C12: a loop offers a matching item on its output only when the alert for it
\* has been received: while the event loop is in its select (or beyond) with a
\* matching envelope, as many alerts have been received as matching envelopes
\* were received, and never more matching items are delivered than alerts
\* were received; likewise for the error loop.
C12_AlertFirst ==
  /\ pcEv # "alert" => detectCh[DopplerAlert] = CountEv(recvEv)
  /\ pcEv = "alert" => /\ detectCh[DopplerAlert] = CountEv(recvEv) - 1
                       /\ CountEv(outEv) = CountEv(recvEv) - 1
  /\ CountEv(outEv) <= detectCh[DopplerAlert]
  /\ pcErr # "alert" => detectCh[WebsocketAlert] = CountErr(recvErr)
  /\ pcErr = "alert" => /\ detectCh[WebsocketAlert] = CountErr(recvErr) - 1
                        /\ CountErr(outErr) = CountErr(recvErr) - 1
  /\ CountErr(outErr) <= detectCh[WebsocketAlert]

\* The alert of a matching envelope has been received and the envelope is
\* being offered, not yet delivered.
C12_Witness ==
  /\ pcEv = "select"
  /\ isTruncated(event)
  /\ detectCh[DopplerAlert] = 1
  /\ outEv = <<>>

(* ---- C13 *)
\* The anomaly signatures, as the wire contract states them.
OverflowSignature(e) ==
  e = [eventType |-> "CounterEvent", name |-> "TruncatingBuffer.DroppedMessages",
       origin |-> "doppler"]
CloseSignature(e) == e = [type |-> "CloseError", code |-> 1008]

\* C13: the event loop is sending an alert exactly for a held envelope that
\* has all three fields of the overflow signature, the error loop exactly for
\* a close error with code 1008; the alerts received from a loop, with the one
\* it is sending, are as many as the matching items it received, so there are
\* never more alerts than matching items and none without a matching item.
C13_OnlySignature ==
  /\ pcEv = "alert" => OverflowSignature(event)
  /\ pcEv = "select" /\ OverflowSignature(event) => detectCh[DopplerAlert] >= 1
  /\ detectCh[DopplerAlert] + (IF pcEv = "alert" THEN 1 ELSE 0)
       = Cardinality({i \in 1..Len(recvEv) : OverflowSignature(recvEv[i])})
  /\ pcErr = "alert" => CloseSignature(err)
  /\ detectCh[WebsocketAlert] + (IF pcErr = "alert" THEN 1 ELSE 0)
       = Cardinality({i \in 1..Len(recvErr) : CloseSignature(recvErr[i])})

\* Two envelopes that each miss the signature in one field (the name, the
\* type) went through and no alert was sent.
C13_Witness ==
  /\ Len(outEv) = 2
  /\ outEv[1].name # "TruncatingBuffer.DroppedMessages"
  /\ outEv[1].eventType = "CounterEvent" /\ outEv[1].origin = "doppler"
  /\ outEv[2].eventType # "CounterEvent"
  /\ outEv[2].name = "TruncatingBuffer.DroppedMessages" /\ outEv[2].origin = "doppler"
  /\ detectCh[DopplerAlert] = 0

(* ---- C14 *)
\* C14: a loop that returned at the end of its raw stream had delivered every
\* item it received and closed its own output; while the context is not
\* cancelled an output channel is closed only if its own raw stream is closed;
\* and once a raw stream of a started pipeline is closed, with the alert and
\* output channels drained, its loop returns and closes its output (unless the
\* context is cancelled first).
C14_RawClose ==
  /\ [](evExit = "eof" => rawEvClosed /\ evOutClosed /\ pcEv = "done" /\ outEv = recvEv)
  /\ [](errExit = "eof" =>
          rawErrClosed /\ errOutClosed /\ pcErr = "done" /\ RawPart(outErr) = recvErr)
  /\ [](~ctxDone /\ evOutClosed => rawEvClosed)
  /\ [](~ctxDone /\ errOutClosed => rawErrClosed)
  /\ (rawEvClosed /\ pcEv # "idle" /\ {"detectCh", "eventCh_"} \subseteq drain)
       ~> (ctxDone \/ (evExit = "eof" /\ evOutClosed))
  /\ (rawErrClosed /\ pcErr # "idle" /\ {"detectCh", "errCh_"} \subseteq drain)
       ~> (ctxDone \/ (errExit = "eof" /\ errOutClosed))

\* The event loop delivered two envelopes and returned at the end of eventCh;
\* the error loop still runs and errCh_ is open.
C14_Witness ==
  /\ ~ctxDone
  /\ evExit = "eof"
  /\ Len(outEv) = 2
  /\ pcErr = "recv"
  /\ ~errOutClosed

(* ---- C15 *)
\* C15: with all three channels drained, a loop of a live process that waits
\* at a suspension point when the context is cancelled can leave by itself:
\* from its select by the cancellation branch and, waiting for raw input,
\* without an item arriving.
C15_Original ==
  drain = OutputChannels =>
    /\ (Alive /\ ctxDone /\ pcEv \in {"recv", "select"}) => ENABLED EvLoop
    /\ (Alive /\ ctxDone /\ pcErr \in {"recv", "select"}) => ENABLED ErrLoop

(* ---- C16 *)
\* C16: a loop that is sending an alert has emitted no cancellation error and
\* its output channel is open; with the context cancelled it leaves that send
\* only by a reader taking the alert, and then goes to its select; while
\* nobody receives from detectCh it stays in the send.
C16_AlertNotRaced ==
  /\ [](pcEv = "alert" => ~evOutClosed /\ evExit = "no")
  /\ [](pcErr = "alert" => ~errOutClosed /\ errExit = "no")
  /\ [][pcEv = "alert" /\ ctxDone =>
          \/ pcEv' = "alert" /\ ~evOutClosed' /\ evExit' = "no"
          \/ /\ pcEv' = "select"
             /\ "detectCh" \in drain
             /\ detectCh'[DopplerAlert] = detectCh[DopplerAlert] + 1]_vars
  /\ [][pcErr = "alert" /\ ctxDone =>
          \/ pcErr' = "alert" /\ ~errOutClosed' /\ errExit' = "no"
          \/ /\ pcErr' = "select"
             /\ "detectCh" \in drain
             /\ detectCh'[WebsocketAlert] = detectCh[WebsocketAlert] + 1]_vars

\* Both loops are sending an alert nobody receives, the context is cancelled
\* and both output channels are open.
C16_Witness ==
  /\ ctxDone
  /\ "detectCh" \notin drain
  /\ pcEv = "alert"
  /\ pcErr = "alert"
  /\ ~evOutClosed
  /\ ~errOutClosed

(* ---- C17 *)
\* C17: even with all three channels drained, the event loop never sends its
\* cancellation error on a closed errCh_.
C17_Original ==
  drain = OutputChannels =>
    /\ ~(pcEv = "cancelSend" /\ errOutClosed)
    /\ pcEv # "panic"

(* ---- C18 *)
\* C18: a cancel function is stored exactly when the pipeline was started by
\* Detect; on a pipeline started by DetectContext a Stop, called directly or
\* by Close, returns the error it returns before any start and changes
\* nothing else: the context stays as it is and no loop moves.
C18_StopNeedsDetect ==
  /\ [](cancelFunc = "set" <=> started = "Detect")
  /\ [][Stop /\ started \in {"no", "DetectContext"} =>
          /\ stopRet' = "cancel function is not given"
          /\ UNCHANGED <<sessionVars, started, cancelFunc, ctxDone, envVars, evVars,
                         errVars, detectCh, panicked>>]_vars
  /\ [][(\E r \in ConnCloseResults : Close(r)) /\ started = "DetectContext" =>
          /\ closeRet' \in {"connection close error", "cancel function is not given"}
          /\ UNCHANGED <<started, cancelFunc, ctxDone, envVars, evVars, errVars,
                         detectCh, panicked>>]_vars

\* A Close on a pipeline started by DetectContext went as far as Stop and
\* returned Stop's error; the context is not cancelled and both loops run.
C18_Witness ==
  /\ started = "DetectContext"
  /\ closeCalls = <<"rawConsumer.Close", "slowDetector.Stop">>
  /\ closeRet = "cancel function is not given"
  /\ ~ctxDone
  /\ pcEv = "select"
  /\ pcErr = "select"

C20_AlertChannelOpen == ~detectChClosed

\* The pipeline is Stopped after a cancellation, an alert was delivered
\* before, and detectCh is open.
C20_Witness ==
  /\ Stopped
  /\ ctxDone
  /\ detectCh[DopplerAlert] = 1
  /\ ~detectChClosed

====
